---- MODULE Spec2Model ----
(***************************************************************************)
(* A model of eslint-doc-generator's rule-doc header pipeline:             *)
(*   src/lib/markdown.ts      replaceOrCreateHeader, findSectionHeader     *)
(*   src/lib/rule-notices.ts  getNoticesForRule, getRuleNoticeLines,       *)
(*                            makeTitle, generateRuleHeaderLines           *)
(*   src/lib/generator.ts     expectContent, expectSectionHeader, generate *)
(*                                                                         *)
(* Text is a sequence of symbols.  A symbol is a one-character string      *)
(* ("#", " ", "\n", "a", ...) or a word that the model treats as one       *)
(* indivisible character ("Options", "allowList", ...).  A line is a text  *)
(* without the newline symbol, and a document is either a text or its      *)
(* sequence of lines (String.split / Array.join convert between the two).  *)
(***************************************************************************)
EXTENDS Integers, Sequences, FiniteSets, TLC

VARIABLES
    \* header merge (markdown.ts, replaceOrCreateHeader)
    lines,            \* the document, as the array the function mutates
    newHeaderLines,   \* the header handed to the function
    docBefore,        \* the document before the first application
    applications,     \* how many times the function has been applied
    afterFirst,       \* the document after the first application
    \* notice composition (rule-notices.ts, getRuleNoticeLines)
    plugin,           \* the loaded plugin: its rule registry
    configsToRules,   \* the configs that enable the rule, per config name
    ignoreConfig,     \* the configs to leave out of the notices
    urlConfigs,       \* the documentation URL for configs, or NoUrl
    noticeLines,      \* the result of getRuleNoticeLines
    noticesDone,      \* whether getRuleNoticeLines has run
    \* section search (markdown.ts, findSectionHeader)
    markdown,         \* the text searched
    str,              \* the phrase searched for
    sectionHeader,    \* the result of findSectionHeader
    searched,         \* whether findSectionHeader has run
    \* generation run (generator.ts, generate)
    pc,               \* position of generate() in its body
    thrown,           \* the Error generate() has thrown, or NoError
    details,          \* the RuleDetails of the registry, in registry order
    ruleIndex,        \* index in details of the rule the loop is at
    files,            \* the file system: file name -> contents, or Missing
    options,          \* generate()'s options (section include / exclude)
    exitCode,         \* process.exitCode
    errors,           \* what console.error has printed, in order
    writes,           \* the files writeFileSync has written, in order
    contents,         \* the rule doc as read, before the header is replaced
    validated,        \* the docs validated so far: rule name, contents, schema
    \* title line (rule-notices.ts, makeTitle)
    ruleDescription,  \* the rule's meta.docs.description, or <<>> for none
    titleFormat,      \* the ruleDocTitleFormat option, or NoFormat
    title,            \* the result of makeTitle
    titleDone         \* whether makeTitle has run

mergeVars   == <<lines, newHeaderLines, docBefore, applications, afterFirst>>
noticeVars  == <<plugin, configsToRules, ignoreConfig, urlConfigs, noticeLines, noticesDone>>
sectionVars == <<markdown, str, sectionHeader, searched>>
runVars     == <<pc, thrown, details, ruleIndex, files, options, exitCode, errors, writes,
                 contents, validated>>
titleVars   == <<ruleDescription, titleFormat, title, titleDone>>
vars        == <<mergeVars, noticeVars, sectionVars, runVars, titleVars>>

-----------------------------------------------------------------------------
(* Bounds of the model. *)

MaxDocLines     == 3   \* lines of a document handed to replaceOrCreateHeader
MaxHeaderLines  == 3   \* lines of a hand-made (not generated) header
MaxApplications == 2   \* applications of replaceOrCreateHeader to one document
MaxTextLines    == 3   \* lines of a text handed to findSectionHeader
MaxRules        == 2   \* rules in the registry of one generation run
MaxDescLen      == 3   \* characters of a description handed to makeTitle

-----------------------------------------------------------------------------
(* Strings: symbols, case, search, split and join. *)

NL == "\n"
BQ == "BACKQUOTE"    \* the backquote character

\* String.prototype.toLowerCase / toUpperCase, symbol by symbol.
LowerSym(c) ==
    CASE c = "Options" -> "options"
      [] c = "OPTIONS" -> "options"
      [] c = "Config"  -> "config"
      [] c = "A" -> "a"
      [] c = "B" -> "b"
      [] OTHER -> c

UpperSym(c) ==
    CASE c = "a" -> "A"
      [] c = "b" -> "B"
      [] OTHER -> c

ToLowerCase(s) == [k \in 1..Len(s) |-> LowerSym(s[k])]
ToUpperCase(s) == [k \in 1..Len(s) |-> UpperSym(s[k])]

\* s has t at (1-based) position p.
HasAt(s, t, p) ==
    /\ p >= 1
    /\ p + Len(t) - 1 <= Len(s)
    /\ SubSeq(s, p, p + Len(t) - 1) = t

\* String.prototype.startsWith
StartsWith(s, t) == HasAt(s, t, 1)

\* String.prototype.includes
Includes(s, t) == \E p \in 1..(Len(s) + 1) : HasAt(s, t, p)

\* Array.prototype.indexOf, 0-based, -1 when absent.
IndexOf(arr, x) ==
    IF \E k \in 1..Len(arr) : arr[k] = x
    THEN (CHOOSE k \in 1..Len(arr) :
              arr[k] = x /\ \A j \in 1..(k - 1) : arr[j] # x) - 1
    ELSE -1

Min(a, b) == IF a < b THEN a ELSE b
Max(a, b) == IF a > b THEN a ELSE b

\* Array.prototype.splice(start, deleteCount, ...items), for 0 <= start.
Splice(arr, start, deleteCount, items) ==
    LET from == Min(start, Len(arr))
        del  == Min(Max(deleteCount, 0), Len(arr) - from)
    IN  SubSeq(arr, 1, from) \o items \o SubSeq(arr, from + del + 1, Len(arr))

\* Array.prototype.join('\n')
RECURSIVE Join(_)
Join(arr) ==
    IF Len(arr) = 0 THEN <<>>
    ELSE IF Len(arr) = 1 THEN arr[1]
    ELSE arr[1] \o <<NL>> \o Join(Tail(arr))

\* String.prototype.split('\n')
RECURSIVE Split(_)
Split(text) ==
    IF \A k \in 1..Len(text) : text[k] # NL THEN <<text>>
    ELSE LET p == CHOOSE k \in 1..Len(text) :
                      text[k] = NL /\ \A j \in 1..(k - 1) : text[j] # NL
         IN  <<SubSeq(text, 1, p - 1)>> \o Split(SubSeq(text, p + 1, Len(text)))

-----------------------------------------------------------------------------
(* markers.js, emojis.js, rule-doc-title-format.js: constants. *)

END_RULE_HEADER_MARKER == <<"<!-- end rule header -->">>

EMOJI_CONFIGS            == "EMOJI_CONFIGS"
EMOJI_CONFIG_RECOMMENDED == "EMOJI_CONFIG_RECOMMENDED"
EMOJI_DEPRECATED         == "EMOJI_DEPRECATED"
EMOJI_FIXABLE            == "EMOJI_FIXABLE"
EMOJI_HAS_SUGGESTIONS    == "EMOJI_HAS_SUGGESTIONS"

RULE_DOC_TITLE_FORMAT_DEFAULT == "desc-parens-prefix-name"

NoUrl    == <<>>    \* urlConfigs undefined
NoFormat == "undefined"    \* ruleDocTitleFormat undefined

-----------------------------------------------------------------------------
(* markdown.ts: replaceOrCreateHeader. *)

\* A plausible slip: the legacy title is kept when there is no marker.
replaceOrCreateHeaderKeepingTitle(ls, hdr, marker) ==
    LET markerLineIndex == IndexOf(ls, marker)
    IN  Splice(ls, 0, markerLineIndex + 1, hdr)

\* A plausible slip: splice(0, markerLineIndex, ...), which leaves the old
\* marker line in the document.
replaceOrCreateHeaderKeepingMarker(ls, hdr, marker) ==
    LET markerLineIndex == IndexOf(ls, marker)
        ls1 == IF /\ markerLineIndex = -1
                  /\ Len(ls) > 0
                  /\ StartsWith(ls[1], <<"#", " ">>)
               THEN Splice(ls, 0, 1, <<>>)
               ELSE ls
    IN  Splice(ls1, 0, markerLineIndex, hdr)

\* A plausible slip: lastIndexOf for indexOf, which cuts at the last marker.
replaceOrCreateHeaderAtLastMarker(ls, hdr, marker) ==
    LET markerLineIndex ==
            IF \E k \in 1..Len(ls) : ls[k] = marker
            THEN (CHOOSE k \in 1..Len(ls) :
                      ls[k] = marker /\ \A j \in (k + 1)..Len(ls) : ls[j] # marker) - 1
            ELSE -1
        ls1 == IF /\ markerLineIndex = -1
                  /\ Len(ls) > 0
                  /\ StartsWith(ls[1], <<"#", " ">>)
               THEN Splice(ls, 0, 1, <<>>)
               ELSE ls
    IN  Splice(ls1, 0, markerLineIndex + 1, hdr)

\* The document after replaceOrCreateHeader(lines, newHeaderLines, marker).
replaceOrCreateHeader(ls, hdr, marker) ==
    LET markerLineIndex == IndexOf(ls, marker)
        ls1 == IF /\ markerLineIndex = -1
                  /\ Len(ls) > 0
                  /\ StartsWith(ls[1], <<"#", " ">>)
               THEN Splice(ls, 0, 1, <<>>)
               ELSE ls
    IN  Splice(ls1, 0, markerLineIndex + 1, hdr)

-----------------------------------------------------------------------------
(* rule-notices.ts: notices. *)

\* enum MESSAGE_TYPE, in declaration order: the order in which the keys of
\* the notices object are created, which is the order for-in visits.
MESSAGE_TYPE ==
    <<"configs", "configRecommended", "deprecated", "fixable", "hasSuggestions">>

\* configs.js, getConfigsForRule: the names of the configs that enable the
\* rule, in the order of the config names.
ConfigOrder == <<"all", "recommended", "style">>

getConfigsForRule(ruleName, c2r, pluginPrefix) ==
    SelectSeq(ConfigOrder, LAMBDA c : ruleName \in c2r[c])

\* configs.js, configNamesToList: the config names, comma-joined.
RECURSIVE configNamesToList(_)
configNamesToList(configNames) ==
    IF Len(configNames) = 0 THEN <<>>
    ELSE IF Len(configNames) = 1 THEN <<BQ, configNames[1], BQ>>
    ELSE <<BQ, configNames[1], BQ, ",", " ">> \o configNamesToList(Tail(configNames))

\* Array.prototype.filter((config) => !ignoreConfig?.includes(config))
FilterIgnored(configNames, ignored) ==
    SelectSeq(configNames, LAMBDA c : c \notin ignored)

getMessages(url) ==
    LET configsLinkOrWord ==
            IF url # NoUrl THEN <<"[configs](">> \o url \o <<")">> ELSE <<"configs">>
        configLinkOrWord ==
            IF url # NoUrl THEN <<"[config](">> \o url \o <<")">> ELSE <<"config">>
    IN  [t \in {MESSAGE_TYPE[k] : k \in 1..Len(MESSAGE_TYPE)} |->
            CASE t = "configs" ->
                    <<EMOJI_CONFIGS, " This rule is enabled in the following ">>
                        \o configsLinkOrWord \o <<":">>
              [] t = "configRecommended" ->
                    <<EMOJI_CONFIG_RECOMMENDED, " This rule is enabled in the 'recommended' ">>
                        \o configLinkOrWord \o <<".">>
              [] t = "deprecated" ->
                    <<EMOJI_DEPRECATED, " This rule is deprecated.">>
              [] t = "fixable" ->
                    <<EMOJI_FIXABLE, " This rule is automatically fixable by the '--fix' CLI option.">>
              [] t = "hasSuggestions" ->
                    <<EMOJI_HAS_SUGGESTIONS, " This rule is manually fixable by editor suggestions.">>]

RECURSIVE ruleNamesToList(_)
ruleNamesToList(ruleNames) ==
    IF Len(ruleNames) = 0 THEN <<>>
    ELSE IF Len(ruleNames) = 1
         THEN <<"[", ruleNames[1], "](", ruleNames[1], ".md)">>
    ELSE <<"[", ruleNames[1], "](", ruleNames[1], ".md)", ",", " ">>
             \o ruleNamesToList(Tail(ruleNames))

\* A plausible slip: >= 1 for > 1, so that a lone "recommended" config
\* also gets the list notice.
getNoticesForRuleOffByOne(r, configsEnabled) ==
    [t \in {MESSAGE_TYPE[k] : k \in 1..Len(MESSAGE_TYPE)} |->
        CASE t = "configs" -> Len(configsEnabled) >= 1
          [] t = "configRecommended" ->
                Len(configsEnabled) = 1 /\ configsEnabled[1] = "recommended"
          [] t = "deprecated" -> r.meta.deprecated
          [] t = "fixable" -> r.meta.fixable # "undefined"
          [] t = "hasSuggestions" -> r.meta.hasSuggestions]

getNoticesForRule(r, configsEnabled) ==
    [t \in {MESSAGE_TYPE[k] : k \in 1..Len(MESSAGE_TYPE)} |->
        CASE t = "configs" ->
                \/ Len(configsEnabled) > 1
                \/ (Len(configsEnabled) = 1 /\ configsEnabled[1] # "recommended")
          [] t = "configRecommended" ->
                Len(configsEnabled) = 1 /\ configsEnabled[1] = "recommended"
          [] t = "deprecated" -> r.meta.deprecated
          [] t = "fixable" -> r.meta.fixable # "undefined"
          [] t = "hasSuggestions" -> r.meta.hasSuggestions]

\* The body of the for (messageType in notices) loop, from the k-th key on.
RECURSIVE NoticeLoop(_, _, _, _, _)
NoticeLoop(k, r, configsEnabled, notices, url) ==
    IF k > Len(MESSAGE_TYPE) THEN <<>>
    ELSE LET messageType == MESSAGE_TYPE[k]
             MESSAGES    == getMessages(url)
             message ==
                 IF messageType = "configs"
                 THEN MESSAGES["configs"] \o <<" ">>
                          \o configNamesToList(configsEnabled) \o <<".">>
                 ELSE IF messageType = "deprecated"
                 THEN IF Len(r.meta.replacedBy) > 0
                      THEN MESSAGES[messageType] \o <<" It was replaced by ">>
                               \o ruleNamesToList(r.meta.replacedBy) \o <<".">>
                      ELSE MESSAGES[messageType]
                 ELSE MESSAGES[messageType]
         IN  (IF notices[messageType] THEN << <<>>, message >> ELSE <<>>)
                 \o NoticeLoop(k + 1, r, configsEnabled, notices, url)

\* A plausible slip: the blank line is pushed after the message.
getRuleNoticeLinesBlankAfter(ruleName, pl, c2r, pluginPrefix, ignored, url) ==
    LET r == pl.rules[ruleName]
        configsEnabled ==
            FilterIgnored(getConfigsForRule(ruleName, c2r, pluginPrefix), ignored)
        ls == NoticeLoop(1, r, configsEnabled, getNoticesForRule(r, configsEnabled), url)
    IN  IF r.style # "object" THEN <<>>
        ELSE [k \in 1..Len(ls) |-> IF k % 2 = 1 THEN ls[k + 1] ELSE ls[k - 1]]

getRuleNoticeLines(ruleName, pl, c2r, pluginPrefix, ignored, url) ==
    LET r == pl.rules[ruleName]
        configsEnabled ==
            FilterIgnored(getConfigsForRule(ruleName, c2r, pluginPrefix), ignored)
        notices == getNoticesForRule(r, configsEnabled)
    IN  IF r.style # "object" THEN <<>>
        ELSE NoticeLoop(1, r, configsEnabled, notices, url)

-----------------------------------------------------------------------------
(* rule-notices.ts: title and header. *)

WordChars == {"a", "b", "A", "B"}    \* the symbols that \w matches

\* str.replace(/^\w/, txt => txt.charAt(0).toUpperCase() + txt.slice(1).toLowerCase())
\* txt is what the pattern matched: the first character alone.
toSentenceCase(s) ==
    IF Len(s) > 0 /\ s[1] \in WordChars
    THEN LET txt == SubSeq(s, 1, 1)
         IN  ToUpperCase(SubSeq(txt, 1, 1)) \o ToLowerCase(SubSeq(txt, 2, Len(txt)))
                 \o SubSeq(s, 2, Len(s))
    ELSE s

\* str.replace(/\.$/, '')
removeTrailingPeriod(s) ==
    IF Len(s) > 0 /\ s[Len(s)] = "." THEN SubSeq(s, 1, Len(s) - 1) ELSE s

\* description is <<>> when the rule has none (undefined and '' are both falsy).
makeTitle(name, description, pluginPrefix, ruleDocTitleFormat) ==
    LET descriptionFormatted == removeTrailingPeriod(toSentenceCase(description))
        format0 == IF ruleDocTitleFormat = NoFormat
                   THEN RULE_DOC_TITLE_FORMAT_DEFAULT
                   ELSE ruleDocTitleFormat
        usesDesc == format0 \in {"desc", "desc-parens-name", "desc-parens-prefix-name"}
        format  == IF usesDesc /\ description = <<>> THEN "prefix-name" ELSE format0
    IN  CASE format = "desc" -> <<"#", " ">> \o descriptionFormatted
          [] format = "desc-parens-name" ->
                <<"#", " ">> \o descriptionFormatted \o <<" ", "(", BQ, name, BQ, ")">>
          [] format = "desc-parens-prefix-name" ->
                <<"#", " ">> \o descriptionFormatted
                    \o <<" ", "(", BQ, pluginPrefix, "/", name, BQ, ")">>
          [] format = "name" -> <<"#", " ", BQ, name, BQ>>
          [] format = "prefix-name" -> <<"#", " ", BQ, pluginPrefix, "/", name, BQ>>

\* The new header, as one string: the lines joined by '\n'.
generateRuleHeaderLines(description, name, pl, c2r, pluginPrefix, ignored, format, url) ==
    Join(<<makeTitle(name, description, pluginPrefix, format)>>
            \o getRuleNoticeLines(name, pl, c2r, pluginPrefix, ignored, url)
            \o << <<>>, END_RULE_HEADER_MARKER >>)

-----------------------------------------------------------------------------
(* markdown.ts: findSectionHeader. *)

UNDEFINED == <<>>    \* the result undefined; a match is never empty

\* The number of characters of a symbol, and String.prototype.length.
Width(c) ==
    CASE c \in {"Options", "OPTIONS", "options"} -> 7
      [] c \in {"Config", "config"} -> 6
      [] c = "Examples" -> 8
      [] c = "Advanced" -> 8
      [] c = "allowList" -> 9
      [] c = "See" -> 3
      [] c = "My" -> 2
      [] c = "text" -> 4
      [] OTHER -> 1

RECURSIVE Length(_)
Length(s) == IF Len(s) = 0 THEN 0 ELSE Width(Head(s)) + Length(Tail(s))

\* The position of the first newline of text at or after position p, 0 if none.
NextNewline(text, p) ==
    IF \E e \in p..Len(text) : text[e] = NL
    THEN CHOOSE e \in p..Len(text) :
             text[e] = NL /\ \A j \in p..(e - 1) : text[j] # NL
    ELSE 0

\* Where a match of /##.* ${str}.*\n/i that starts at position p ends, 0 if
\* there is none: "##", then any characters but a newline, then a space and
\* str (letters compared without case), then any characters but a newline,
\* then a newline.
MatchEnd(text, s, p) ==
    LET e == NextNewline(text, p + 2)
    IN  IF /\ HasAt(text, <<"#", "#">>, p)
           /\ e # 0
           /\ \E q \in (p + 2)..(e - 1 - Len(s)) :
                  /\ text[q] = " "
                  /\ ToLowerCase(SubSeq(text, q + 1, q + Len(s))) = ToLowerCase(s)
        THEN e
        ELSE 0

\* [...markdown.matchAll(regexp)].map((match) => match[0]), searching from
\* position from: the leftmost match, then the matches after its end.
RECURSIVE MatchAll(_, _, _)
MatchAll(text, s, from) ==
    IF \A p \in from..Len(text) : MatchEnd(text, s, p) = 0 THEN <<>>
    ELSE LET p == CHOOSE k \in from..Len(text) :
                      /\ MatchEnd(text, s, k) # 0
                      /\ \A j \in from..(k - 1) : MatchEnd(text, s, j) = 0
             e == MatchEnd(text, s, p)
         IN  <<SubSeq(text, p, e)>> \o MatchAll(text, s, e + 1)

\* arr.sort((a, b) => a.length - b.length)[0]: the sort is stable, so the
\* first element is the earliest one of the least length.
ShortestFirst(arr) ==
    arr[CHOOSE k \in 1..Len(arr) :
            /\ \A j \in 1..Len(arr) : Length(arr[k]) <= Length(arr[j])
            /\ \A j \in 1..(k - 1) : Length(arr[j]) > Length(arr[k])]

findSectionHeader(text, s) ==
    LET sectionPotentialMatches == MatchAll(text, s, 1)
    IN  IF Len(sectionPotentialMatches) = 0 THEN UNDEFINED
        ELSE IF Len(sectionPotentialMatches) = 1 THEN sectionPotentialMatches[1]
        ELSE ShortestFirst(sectionPotentialMatches)

-----------------------------------------------------------------------------
(* generator.ts: the checks of a rule doc.  Each returns what it prints with *)
(* console.error: no line, or one.  Printing a line sets process.exitCode.   *)

\* A plausible slip: the options are looked for in the wrong sense.
expectContentInverted(name, body, content, expected) ==
    IF Includes(body, content) = expected
    THEN << [rule |-> name, kind |-> "content", what |-> <<content>>,
             expected |-> expected] >>
    ELSE <<>>

expectContent(name, body, content, expected) ==
    IF Includes(body, content) # expected
    THEN << [rule |-> name, kind |-> "content", what |-> <<content>>,
             expected |-> expected] >>
    ELSE <<>>

expectSectionHeader(name, body, possibleHeaders, expected) ==
    LET found == \E k \in 1..Len(possibleHeaders) :
                     findSectionHeader(body, possibleHeaders[k]) # UNDEFINED
    IN  IF found # expected
        THEN << [rule |-> name, kind |-> "header", what |-> possibleHeaders,
                 expected |-> expected] >>
        ELSE <<>>

\* rule-options.js: whether the schema declares an option, and the names of
\* the options it declares.  A schema is the sequence of its option names.
hasOptions(schema) == Len(schema) > 0

getAllNamedOptions(schema) == schema

\* for (const section of sections) expectSectionHeader(name, contents, [section], expected)
RECURSIVE ExpectSections(_, _, _, _)
ExpectSections(name, body, sections, expected) ==
    IF Len(sections) = 0 THEN <<>>
    ELSE expectSectionHeader(name, body, <<Head(sections)>>, expected)
             \o ExpectSections(name, body, Tail(sections), expected)

\* for (const namedOption of namedOptions) expectContent(name, contents, namedOption, true)
RECURSIVE ExpectOptions(_, _, _)
ExpectOptions(name, body, namedOptions) ==
    IF Len(namedOptions) = 0 THEN <<>>
    ELSE expectContent(name, body, Head(namedOptions), TRUE)
             \o ExpectOptions(name, body, Tail(namedOptions))

\* The "Options section" checks of one rule doc.
OptionsChecks(name, body, schema) ==
    expectSectionHeader(name, body, << <<"Options">>, <<"Config">> >>,
                        hasOptions(schema))
        \o ExpectOptions(name, body, getAllNamedOptions(schema))

\* All the checks of one rule doc, in the order generate() makes them.
RuleDocChecks(name, body, schema, opts) ==
    ExpectSections(name, body, opts.ruleDocSectionInclude, TRUE)
        \o ExpectSections(name, body, opts.ruleDocSectionExclude, FALSE)
        \o OptionsChecks(name, body, schema)

-----------------------------------------------------------------------------
(* Inputs. *)

BoundedSeq(S, n) == UNION {[1..k -> S] : k \in 0..n}

ConfigNames == {ConfigOrder[k] : k \in 1..Len(ConfigOrder)}

PLUGIN_PREFIX == "test"    \* getPluginPrefix(path)

\* A rule module: object-style with its meta, or function-style (its meta is
\* not read).
Meta(description, deprecated, fixable, hasSuggestions, replacedBy, schema) ==
    [description |-> description, deprecated |-> deprecated, fixable |-> fixable,
     hasSuggestions |-> hasSuggestions, replacedBy |-> replacedBy, schema |-> schema]

FunctionRule ==
    [style |-> "function", meta |-> Meta(<<>>, FALSE, "undefined", FALSE, <<>>, <<>>)]

ObjectRules ==
    {[style |-> "object", meta |-> Meta(<<"d", "O", ".">>, d, f, h, r, <<>>)] :
        d \in BOOLEAN, f \in {"undefined", "code"}, h \in BOOLEAN,
        r \in {<<>>, <<"no-bar">>}}

\* A plugin whose registry holds the modules ms under the names ns, in order.
Plugin(ns, ms) ==
    [hasRules |-> TRUE, names |-> ns,
     rules |-> [n \in {ns[k] : k \in 1..Len(ns)} |->
                   ms[CHOOSE k \in 1..Len(ns) : ns[k] = n]]]

NoPlugin == [hasRules |-> FALSE, names |-> <<>>, rules |-> <<>>]

NoConfigs == [c \in ConfigNames |-> {}]

IdleMerge ==
    /\ lines = <<>>
    /\ newHeaderLines = <<>>
    /\ docBefore = <<>>
    /\ applications = 0
    /\ afterFirst = <<>>

IdleNotices ==
    /\ plugin = NoPlugin
    /\ configsToRules = NoConfigs
    /\ ignoreConfig = {}
    /\ urlConfigs = NoUrl
    /\ noticeLines = <<>>
    /\ noticesDone = FALSE

IdleSection ==
    /\ markdown = <<>>
    /\ str = <<>>
    /\ sectionHeader = UNDEFINED
    /\ searched = FALSE

NoError == [kind |-> "none", rule |-> "none"]

IdleRun ==
    /\ pc = "idle"
    /\ thrown = NoError
    /\ details = <<>>
    /\ ruleIndex = 0
    /\ files = <<>>
    /\ options = <<>>
    /\ exitCode = 0
    /\ errors = <<>>
    /\ writes = <<>>
    /\ contents = <<>>
    /\ validated = <<>>

IdleTitle ==
    /\ ruleDescription = <<>>
    /\ titleFormat = NoFormat
    /\ title = <<>>
    /\ titleDone = FALSE

-----------------------------------------------------------------------------
(* Header merge: replaceOrCreateHeader applied, and applied again, to a     *)
(* document, with a generated header or with a hand-made one that ends in   *)
(* the marker.                                                              *)

DocLines ==
    { END_RULE_HEADER_MARKER,
      <<"#", " ", "Old title">>,
      <<"#", "#", " ", "Options">>,
      <<"text">>,
      <<>> }

HeaderLines ==
    { END_RULE_HEADER_MARKER, <<"#", " ", "New title">>, <<>> }

HandMadeHeaders ==
    {h \in BoundedSeq(HeaderLines, MaxHeaderLines) :
        Len(h) > 0 /\ h[Len(h)] = END_RULE_HEADER_MARKER}

MergeRules ==
    { FunctionRule,
      [style |-> "object", meta |-> Meta(<<"d", "O", ".">>, FALSE, "undefined", FALSE, <<>>, <<>>)],
      [style |-> "object", meta |-> Meta(<<>>, TRUE, "code", FALSE, <<"no-bar">>, <<>>)] }

\* The headers generateRuleHeaderLines makes, as the lines of its string.
GeneratedHeaders ==
    { Split(generateRuleHeaderLines(m.meta.description, "no-foo",
                                    Plugin(<<"no-foo">>, <<m>>), c2r, PLUGIN_PREFIX,
                                    {}, NoFormat, NoUrl)) :
        m \in MergeRules,
        c2r \in {NoConfigs, [c \in ConfigNames |->
                                IF c = "recommended" THEN {"no-foo"} ELSE {}]} }

InitMerge ==
    /\ lines \in BoundedSeq(DocLines, MaxDocLines)
    /\ newHeaderLines \in GeneratedHeaders \cup HandMadeHeaders
    /\ docBefore = lines
    /\ applications = 0
    /\ afterFirst = <<>>
    /\ IdleNotices /\ IdleSection /\ IdleRun /\ IdleTitle

ReplaceOrCreateHeader ==
    /\ applications < MaxApplications
    /\ lines' = replaceOrCreateHeader(lines, newHeaderLines, END_RULE_HEADER_MARKER)
    /\ applications' = applications + 1
    /\ afterFirst' = IF applications = 0 THEN lines' ELSE afterFirst
    /\ UNCHANGED <<newHeaderLines, docBefore>>
    /\ UNCHANGED <<noticeVars, sectionVars, runVars, titleVars>>

NextMerge == ReplaceOrCreateHeader

SpecMerge == InitMerge /\ [][NextMerge]_vars

-----------------------------------------------------------------------------
(* Notice composition: getRuleNoticeLines for one rule. *)

InitNotices ==
    /\ plugin \in {Plugin(<<"no-foo">>, <<m>>) : m \in ObjectRules \cup {FunctionRule}}
    /\ configsToRules \in [ConfigNames -> SUBSET {"no-foo"}]
    /\ ignoreConfig \in SUBSET {"all", "recommended"}
    /\ urlConfigs \in {NoUrl, <<"https://example.com/configs">>}
    /\ noticeLines = <<>>
    /\ noticesDone = FALSE
    /\ IdleMerge /\ IdleSection /\ IdleRun /\ IdleTitle

GetRuleNoticeLines ==
    /\ ~noticesDone
    /\ noticeLines' = getRuleNoticeLines("no-foo", plugin, configsToRules,
                                         PLUGIN_PREFIX, ignoreConfig, urlConfigs)
    /\ noticesDone' = TRUE
    /\ UNCHANGED <<plugin, configsToRules, ignoreConfig, urlConfigs>>
    /\ UNCHANGED <<mergeVars, sectionVars, runVars, titleVars>>

NextNotices == GetRuleNoticeLines

SpecNotices == InitNotices /\ [][NextNotices]_vars

-----------------------------------------------------------------------------
(* Section search: findSectionHeader on a text of a few lines, with or      *)
(* without a newline at its end.                                            *)

TextLines ==
    { <<"#", "#", " ", "Options">>,
      <<"#", "#", " ", "Advanced", " ", "Options">>,
      <<"#", "#", "#", " ", "options">>,
      <<"#", " ", "Options">>,
      <<"See", " ", "#", "#", " ", "Options">>,
      <<"#", "#", " ", "My", "Options">>,
      <<"#", "#", " ", "Config">>,
      <<"text">> }

Texts ==
    {Join(ls) : ls \in BoundedSeq(TextLines, MaxTextLines) \ {<<>>}}
        \cup {Join(ls) \o <<NL>> : ls \in BoundedSeq(TextLines, MaxTextLines) \ {<<>>}}

InitSection ==
    /\ markdown \in Texts
    /\ str \in {<<"Options">>, <<"Config">>}
    /\ sectionHeader = UNDEFINED
    /\ searched = FALSE
    /\ IdleMerge /\ IdleNotices /\ IdleRun /\ IdleTitle

FindSectionHeader ==
    /\ ~searched
    /\ sectionHeader' = findSectionHeader(markdown, str)
    /\ searched' = TRUE
    /\ UNCHANGED <<markdown, str>>
    /\ UNCHANGED <<mergeVars, noticeVars, runVars, titleVars>>

NextSection == FindSectionHeader

SpecSection == InitSection /\ [][NextSection]_vars

-----------------------------------------------------------------------------
(* Generation run: generate() over a registry of a few rules.  Its options  *)
(* give no title format and no URL for configs.                             *)

RuleNames == <<"no-foo", "no-bar", "no-baz", "no-qux">>

RunRules ==
    { FunctionRule,
      [style |-> "object", meta |-> Meta(<<"d", "O", ".">>, FALSE, "undefined", FALSE, <<>>, <<>>)],
      [style |-> "object", meta |-> Meta(<<>>, FALSE, "code", FALSE, <<>>, << <<"allowList">> >>)],
      [style |-> "object", meta |-> Meta(<<>>, TRUE, "undefined", FALSE, <<>>, << <<"allowList">> >>)] }

\* resolveConfigsToRules(plugin)
RunConfigsToRules == [c \in ConfigNames |-> IF c = "recommended" THEN {"no-foo"} ELSE {}]

File(text) == [exists |-> TRUE, contents |-> text]
Missing    == [exists |-> FALSE, contents |-> <<>>]

\* A rule doc is missing, or: a legacy title and text; a header with its
\* marker, an Options section and the option; a Config section without the
\* option; the option without a section.
RunDocs ==
    { Missing,
      File(<<"#", " ", "Old title", NL, NL, "text", NL>>),
      File(<<"#", " ", "Old title", NL, END_RULE_HEADER_MARKER[1], NL,
             "#", "#", " ", "Options", NL, "allowList", NL>>),
      File(<<"#", "#", " ", "Config", NL, "text", NL>>),
      File(<<"text", " ", "allowList", NL>>) }

README == File(<<"#", " ", "Plugin", NL>>)

OptionSets ==
    { [ruleDocSectionInclude |-> <<>>, ruleDocSectionExclude |-> <<>>],
      [ruleDocSectionInclude |-> << <<"Examples">> >>,
       ruleDocSectionExclude |-> << <<"Config">> >>] }

\* join(pathTo.docs, 'rules', `${name}.md`) and pathTo.readme
DocPath(name) == <<"docs", "rules", name>>
ReadmePath    == <<"README.md">>

\* The RuleDetails of one entry of plugin.rules.
RuleDetailsOf(name, m) ==
    IF m.style = "object"
    THEN [name |-> name, description |-> m.meta.description,
          fixable |-> m.meta.fixable \in {"code", "whitespace"},
          hasSuggestions |-> m.meta.hasSuggestions,
          deprecated |-> m.meta.deprecated, schema |-> m.meta.schema]
    ELSE [name |-> name, description |-> <<>>, fixable |-> FALSE,
          hasSuggestions |-> FALSE, deprecated |-> FALSE, schema |-> <<>>]

\* rule-list.js, updateRulesList: the README with its list of rules.
updateRulesList(ds, readme) ==
    readme \o <<"RULES_LIST">> \o [k \in 1..Len(ds) |-> ds[k].name]

InitRun ==
    /\ pc = "start"
    /\ thrown = NoError
    /\ details = <<>>
    /\ ruleIndex = 0
    /\ \E n \in 0..MaxRules :
           \E ms \in [1..n -> RunRules], ds \in [1..n -> RunDocs],
              readme \in {Missing, README}, loaded \in BOOLEAN :
               /\ loaded \/ (n = 0 /\ readme = README)
               /\ plugin = IF loaded THEN Plugin(SubSeq(RuleNames, 1, n), ms) ELSE NoPlugin
               /\ files = [f \in {DocPath(RuleNames[k]) : k \in 1..n} \cup {ReadmePath} |->
                              IF f = ReadmePath THEN readme
                              ELSE ds[CHOOSE k \in 1..n : f = DocPath(RuleNames[k])]]
    /\ options \in OptionSets
    /\ exitCode = 0
    /\ errors = <<>>
    /\ writes = <<>>
    /\ contents = <<>>
    /\ validated = <<>>
    /\ configsToRules = RunConfigsToRules
    /\ ignoreConfig = {}
    /\ urlConfigs = NoUrl
    /\ noticeLines = <<>>
    /\ noticesDone = FALSE
    /\ IdleMerge /\ IdleSection /\ IdleTitle

RunFrame == UNCHANGED <<mergeVars, noticeVars, sectionVars, titleVars, options>>

\* if (!plugin.rules) throw
ThrowNoRules ==
    /\ pc = "start"
    /\ ~plugin.hasRules
    /\ pc' = "thrown"
    /\ thrown' = [kind |-> "noRules", rule |-> "none"]
    /\ UNCHANGED <<details, ruleIndex, files, exitCode, errors, writes, contents, validated>>
    /\ RunFrame

\* Gather details about rules.
GatherDetails ==
    /\ pc = "start"
    /\ plugin.hasRules
    /\ details' = [k \in 1..Len(plugin.names) |->
                      RuleDetailsOf(plugin.names[k], plugin.rules[plugin.names[k]])]
    /\ ruleIndex' = 1
    /\ pc' = "loop"
    /\ UNCHANGED <<thrown, files, exitCode, errors, writes, contents, validated>>
    /\ RunFrame

AtRule == pc = "loop" /\ ruleIndex <= Len(details)

\* A plausible slip: every rule without a doc file is passed over, deprecated
\* or not.
SkipRuleWithoutDoc ==
    /\ AtRule
    /\ ~files[DocPath(details[ruleIndex].name)].exists
    /\ ruleIndex' = ruleIndex + 1
    /\ UNCHANGED <<pc, thrown, details, files, exitCode, errors, writes, contents, validated>>
    /\ RunFrame

\* Allow deprecated rules to forgo a rule doc file: continue.
SkipDeprecatedRule ==
    /\ AtRule
    /\ ~files[DocPath(details[ruleIndex].name)].exists
    /\ details[ruleIndex].deprecated
    /\ ruleIndex' = ruleIndex + 1
    /\ UNCHANGED <<pc, thrown, details, files, exitCode, errors, writes, contents, validated>>
    /\ RunFrame

\* throw new Error(`Could not find rule doc: ...`)
ThrowMissingDoc ==
    /\ AtRule
    /\ ~files[DocPath(details[ruleIndex].name)].exists
    /\ ~details[ruleIndex].deprecated
    /\ pc' = "thrown"
    /\ thrown' = [kind |-> "missingDoc", rule |-> details[ruleIndex].name]
    /\ UNCHANGED <<details, ruleIndex, files, exitCode, errors, writes, contents, validated>>
    /\ RunFrame

\* Regenerate the header of the rule doc and write the doc.  generate() holds
\* the doc and the new header as strings; replaceOrCreateHeader works on
\* their lines.
UpdateRuleDoc ==
    /\ AtRule
    /\ files[DocPath(details[ruleIndex].name)].exists
    /\ LET d == details[ruleIndex]
           pathToDoc == DocPath(d.name)
           newHeaderText ==
               generateRuleHeaderLines(d.description, d.name, plugin, configsToRules,
                                       PLUGIN_PREFIX, {}, NoFormat, NoUrl)
           contentsNew ==
               Join(replaceOrCreateHeader(Split(files[pathToDoc].contents),
                                          Split(newHeaderText), END_RULE_HEADER_MARKER))
       IN  /\ contents' = files[pathToDoc].contents
           /\ files' = [files EXCEPT ![pathToDoc] = File(contentsNew)]
           /\ writes' = Append(writes, pathToDoc)
    /\ pc' = "validate"
    /\ UNCHANGED <<thrown, details, ruleIndex, exitCode, errors, validated>>
    /\ RunFrame

\* A plausible slip: the exit code follows the last doc checked, so a doc
\* without issues resets it.
ValidateRuleDocResetting ==
    /\ pc = "validate"
    /\ LET d == details[ruleIndex]
           printed == RuleDocChecks(d.name, contents, d.schema, options)
       IN  /\ errors' = errors \o printed
           /\ exitCode' = IF Len(printed) > 0 THEN 1 ELSE 0
           /\ validated' = Append(validated,
                  [name |-> d.name, contents |-> contents, schema |-> d.schema])
    /\ ruleIndex' = ruleIndex + 1
    /\ pc' = "loop"
    /\ UNCHANGED <<thrown, details, files, writes, contents>>
    /\ RunFrame

\* Check for potential issues with the rule doc, as it was read.
ValidateRuleDoc ==
    /\ pc = "validate"
    /\ LET d == details[ruleIndex]
           printed == RuleDocChecks(d.name, contents, d.schema, options)
       IN  /\ errors' = errors \o printed
           /\ exitCode' = IF Len(printed) > 0 THEN 1 ELSE exitCode
           /\ validated' = Append(validated,
                  [name |-> d.name, contents |-> contents, schema |-> d.schema])
    /\ ruleIndex' = ruleIndex + 1
    /\ pc' = "loop"
    /\ UNCHANGED <<thrown, details, files, writes, contents>>
    /\ RunFrame

AfterRules == pc = "loop" /\ ruleIndex > Len(details)

\* throw new Error(`Could not find README: ...`)
ThrowMissingReadme ==
    /\ AfterRules
    /\ ~files[ReadmePath].exists
    /\ pc' = "thrown"
    /\ thrown' = [kind |-> "missingReadme", rule |-> "none"]
    /\ UNCHANGED <<details, ruleIndex, files, exitCode, errors, writes, contents, validated>>
    /\ RunFrame

\* Update the rules list in the README.
UpdateReadme ==
    /\ AfterRules
    /\ files[ReadmePath].exists
    /\ files' = [files EXCEPT ![ReadmePath] =
                    File(updateRulesList(details, files[ReadmePath].contents))]
    /\ writes' = Append(writes, ReadmePath)
    /\ pc' = "done"
    /\ UNCHANGED <<thrown, details, ruleIndex, exitCode, errors, contents, validated>>
    /\ RunFrame

NextRun ==
    \/ ThrowNoRules
    \/ GatherDetails
    \/ SkipDeprecatedRule
    \/ ThrowMissingDoc
    \/ UpdateRuleDoc
    \/ ValidateRuleDoc
    \/ ThrowMissingReadme
    \/ UpdateReadme

SpecRun == InitRun /\ [][NextRun]_vars

-----------------------------------------------------------------------------
(* Title line: makeTitle for one rule, over every short description of      *)
(* upper-case letters, lower-case letters and periods, under every title    *)
(* format and under none.                                                   *)

DescChars == WordChars \cup {"."}

Descriptions == BoundedSeq(DescChars, MaxDescLen)

DescFormats == {"desc", "desc-parens-name", "desc-parens-prefix-name"}

TitleFormats == DescFormats \cup {"name", "prefix-name"}

InitTitle ==
    /\ ruleDescription \in Descriptions
    /\ titleFormat \in TitleFormats \cup {NoFormat}
    /\ title = <<>>
    /\ titleDone = FALSE
    /\ IdleMerge /\ IdleNotices /\ IdleSection /\ IdleRun

MakeTitle ==
    /\ ~titleDone
    /\ title' = makeTitle("no-foo", ruleDescription, PLUGIN_PREFIX, titleFormat)
    /\ titleDone' = TRUE
    /\ UNCHANGED <<ruleDescription, titleFormat>>
    /\ UNCHANGED <<mergeVars, noticeVars, sectionVars, runVars>>

NextTitle == MakeTitle

SpecTitle == InitTitle /\ [][NextTitle]_vars

-----------------------------------------------------------------------------
(* All of it: one of the five, from its initial states. *)

Init == InitMerge \/ InitNotices \/ InitSection \/ InitRun \/ InitTitle

Next == NextMerge \/ NextNotices \/ NextSection \/ NextRun \/ NextTitle

Spec == Init /\ [][Next]_vars

-----------------------------------------------------------------------------
(* Properties of the header merge (SpecMerge). *)

\* How many lines of d are the marker.
RECURSIVE MarkerCount(_)
MarkerCount(d) ==
    IF Len(d) = 0 THEN 0
    ELSE (IF Head(d) = END_RULE_HEADER_MARKER THEN 1 ELSE 0) + MarkerCount(Tail(d))

\* The marker is the last line of h and no other line of h.
MarkerOnlyLast(h) ==
    /\ Len(h) > 0
    /\ \A k \in 1..Len(h) : (h[k] = END_RULE_HEADER_MARKER) <=> (k = Len(h))

\* C1, as claimed: for every document and every new header whose last line is
\* the marker, a second application of replaceOrCreateHeader with the same
\* header leaves the document as the first application made it.
C1_IdempotentAnyHeader ==
    applications >= 2 => lines = afterFirst

\* C1, amended: for every document and every new header whose last line, and
\* no other line, is the marker, a second application of
\* replaceOrCreateHeader with the same header leaves the document as the
\* first application made it.
C1_Idempotent ==
    (applications >= 2 /\ MarkerOnlyLast(newHeaderLines)) => lines = afterFirst

\* Applied twice with a header that holds the marker once, to a document with
\* a legacy title and no marker.
C1_Witness ==
    /\ applications = 2
    /\ MarkerOnlyLast(newHeaderLines)
    /\ MarkerCount(docBefore) = 0
    /\ Len(docBefore) = 2
    /\ docBefore[1] = <<"#", " ", "Old title">>
    /\ lines = afterFirst

\* C2, as claimed: for every input document, with no, one or several marker
\* lines, the document after a merge of a generated header contains the
\* marker exactly once, as the last line of the new header region.
C2_ExactlyOneMarker ==
    (applications >= 1 /\ newHeaderLines \in GeneratedHeaders) =>
        /\ MarkerCount(lines) = 1
        /\ lines[Len(newHeaderLines)] = END_RULE_HEADER_MARKER

\* C2, amended: for every input document, after a merge of a generated header
\* the first marker line of the document is the last line of the new header
\* region; the marker lines of the input after its first one stay in the
\* body, so the document contains the marker exactly once whenever the input
\* contains it at most once.
C2_MarkerEndsHeader ==
    (applications >= 1 /\ newHeaderLines \in GeneratedHeaders) =>
        /\ lines[Len(newHeaderLines)] = END_RULE_HEADER_MARKER
        /\ \A k \in 1..(Len(newHeaderLines) - 1) : lines[k] # END_RULE_HEADER_MARKER
        /\ MarkerCount(lines) =
               1 + (IF MarkerCount(docBefore) > 1 THEN MarkerCount(docBefore) - 1 ELSE 0)
        /\ (MarkerCount(docBefore) <= 1 => MarkerCount(lines) = 1)

\* A generated header merged into a document that holds one marker, after a
\* line of an older header.
C2_Witness ==
    /\ applications = 1
    /\ newHeaderLines \in GeneratedHeaders
    /\ Len(newHeaderLines) > 3
    /\ Len(docBefore) = 3
    /\ docBefore[2] = END_RULE_HEADER_MARKER
    /\ MarkerCount(docBefore) = 1
    /\ MarkerCount(lines) = 1

\* The part of document d that the claim says is kept: the lines after the
\* (first) marker line; without a marker, the lines after a leading level-1
\* title; otherwise all of d.
C3_KeptTail(d) ==
    IF MarkerCount(d) > 0
    THEN LET m == CHOOSE k \in 1..Len(d) :
                      /\ d[k] = END_RULE_HEADER_MARKER
                      /\ MarkerCount(SubSeq(d, 1, k)) = 1
         IN  [k \in 1..(Len(d) - m) |-> d[m + k]]
    ELSE IF Len(d) > 0 /\ Len(d[1]) >= 2 /\ d[1][1] = "#" /\ d[1][2] = " "
    THEN [k \in 1..(Len(d) - 1) |-> d[k + 1]]
    ELSE d

\* C3: the document after replaceOrCreateHeader is the new header followed by
\* the kept tail of the input, line for line.
C3_BodyPreserved ==
    applications >= 1 => afterFirst = newHeaderLines \o C3_KeptTail(docBefore)

\* A header merged into a document of a legacy title and two body lines.
C3_Witness ==
    /\ applications = 1
    /\ MarkerCount(docBefore) = 0
    /\ Len(docBefore) = 3
    /\ docBefore[1] = <<"#", " ", "Old title">>
    /\ lines = newHeaderLines \o <<docBefore[2], docBefore[3]>>

-----------------------------------------------------------------------------
(* Properties of the notices (SpecNotices). *)

TheRule == plugin.rules["no-foo"]

\* The configs that enable the rule and are not ignored.
EnabledConfigs == {c \in ConfigNames : "no-foo" \in configsToRules[c]} \ ignoreConfig

\* Whether a notice line that starts with the emoji is among the lines.
HasNotice(emoji) ==
    \E k \in 1..Len(noticeLines) :
        Len(noticeLines[k]) > 0 /\ noticeLines[k][1] = emoji

\* C4: the configs notice and the config-recommended notice never both apply;
\* config-recommended applies iff "recommended" is the one enabling config;
\* configs applies iff there are several enabling configs or one that is not
\* "recommended"; without an enabling config neither applies.  The notice
\* lines of an object-style rule show the same.
C4_NoticeExclusivity ==
    noticesDone =>
        LET n == getNoticesForRule(TheRule,
                     SelectSeq(ConfigOrder, LAMBDA c : c \in EnabledConfigs))
            one == Cardinality(EnabledConfigs) = 1
        IN  /\ ~(n["configs"] /\ n["configRecommended"])
            /\ n["configRecommended"] <=> (EnabledConfigs = {"recommended"})
            /\ n["configs"] <=> \/ Cardinality(EnabledConfigs) > 1
                                \/ (one /\ EnabledConfigs # {"recommended"})
            /\ (EnabledConfigs = {} => ~n["configs"] /\ ~n["configRecommended"])
            /\ (TheRule.style = "object" =>
                   /\ HasNotice(EMOJI_CONFIGS) <=> n["configs"]
                   /\ HasNotice(EMOJI_CONFIG_RECOMMENDED) <=> n["configRecommended"])

\* An object-style rule enabled by "recommended" and by an ignored "all".
C4_Witness ==
    /\ noticesDone
    /\ TheRule.style = "object"
    /\ "no-foo" \in configsToRules["all"]
    /\ ignoreConfig = {"all"}
    /\ EnabledConfigs = {"recommended"}
    /\ HasNotice(EMOJI_CONFIG_RECOMMENDED)
    /\ ~HasNotice(EMOJI_CONFIGS)

\* Whether the claim has the notice of a kind apply to the rule.
C5_Applies(kind) ==
    CASE kind = "configs" -> EnabledConfigs \notin {{}, {"recommended"}}
      [] kind = "configRecommended" -> EnabledConfigs = {"recommended"}
      [] kind = "deprecated" -> TheRule.meta.deprecated
      [] kind = "fixable" -> TheRule.meta.fixable \in {"code", "whitespace"}
      [] kind = "hasSuggestions" -> TheRule.meta.hasSuggestions

\* The applicable kinds, in the canonical order.
C5_Kinds ==
    SelectSeq(<<"configs", "configRecommended", "deprecated", "fixable", "hasSuggestions">>,
              C5_Applies)

-----------------------------------------------------------------------------
(* Properties of the section search (SpecSection). *)

\* A line that is a heading of level 2 or deeper: two or more "#", a space.
IsHeadingLine(l) ==
    \E n \in 2..(Len(l) - 1) : (\A j \in 1..n : l[j] = "#") /\ l[n + 1] = " "

\* The heading lines of the text that contain the phrase, letters compared
\* without case.
MatchingHeadings ==
    {l \in {Split(markdown)[k] : k \in 1..Len(Split(markdown))} :
        IsHeadingLine(l) /\ Includes(ToLowerCase(l), ToLowerCase(str))}

\* The result without the newline that ends it.
ResultLine ==
    IF Len(sectionHeader) > 0 /\ sectionHeader[Len(sectionHeader)] = NL
    THEN SubSeq(sectionHeader, 1, Len(sectionHeader) - 1)
    ELSE sectionHeader

\* C6: when heading lines of the text match the phrase, findSectionHeader
\* returns one of them, and none of them is shorter than the one it returns
\* (so with one matching heading line it returns that line).
C6_ShortestHeading ==
    (searched /\ MatchingHeadings # {}) =>
        /\ ResultLine \in MatchingHeadings
        /\ \A h \in MatchingHeadings : Length(ResultLine) <= Length(h)

\* C10: findSectionHeader returns a heading line iff a heading line of level
\* 2 or deeper of the text contains the phrase, letters compared without
\* case, wherever that line is in the text; a line that is no heading is
\* never returned.
C10_FoundIffHeading ==
    searched =>
        /\ (sectionHeader # UNDEFINED) <=> (MatchingHeadings # {})
        /\ (sectionHeader # UNDEFINED => IsHeadingLine(ResultLine))

-----------------------------------------------------------------------------
(* Properties of the generation run (SpecRun). *)

\* What console.error has printed about a rule.
ErrorsOf(name) == SelectSeq(errors, LAMBDA e : e.rule = name)

\* Whether a heading with "Options" or with "Config" is found in the body.
Locatable(body) ==
    \/ findSectionHeader(body, <<"Options">>) # UNDEFINED
    \/ findSectionHeader(body, <<"Config">>) # UNDEFINED

NoSectionPolicy ==
    options.ruleDocSectionInclude = <<>> /\ options.ruleDocSectionExclude = <<>>

HasDoc(k) == k \in 1..Len(details) /\ DocPath(details[k].name) \in DOMAIN files
                 /\ files[DocPath(details[k].name)].exists

\* The docs of the first n rules of the registry that have a doc, in order.
RECURSIVE DocsOfFirst(_)
DocsOfFirst(n) ==
    IF n = 0 THEN <<>>
    ELSE DocsOfFirst(n - 1)
             \o (IF HasDoc(n) THEN <<DocPath(details[n].name)>> ELSE <<>>)

\* C8: a validation failure only prints and sets the exit code.  The step
\* that validates a doc never throws and goes on to the next rule; the run
\* stops early only for a missing registry, doc or README; whatever was
\* printed, the docs of all the rules passed have been written and validated
\* and a finished run has written the README; the exit code, once 1, stays 1.
C8_NonFatalDiagnostics ==
    /\ [](/\ (exitCode = 1) <=> (errors # <<>>)
          /\ (pc = "thrown") <=> (thrown # NoError)
          /\ thrown.kind \in {"none", "noRules", "missingDoc", "missingReadme"}
          /\ thrown.kind = "noRules" => ~plugin.hasRules
          /\ thrown.kind = "missingReadme" => ~files[ReadmePath].exists
          /\ pc \in {"loop", "validate", "done"} =>
                 /\ \A k \in 1..(ruleIndex - 1) :
                        HasDoc(k) =>
                            /\ \E j \in 1..Len(writes) : writes[j] = DocPath(details[k].name)
                            /\ \E j \in 1..Len(validated) : validated[j].name = details[k].name
          /\ pc = "done" =>
                 /\ ruleIndex = Len(details) + 1
                 /\ writes[Len(writes)] = ReadmePath)
    /\ [][/\ exitCode = 1 => exitCode' = 1
          /\ pc = "validate" =>
                 /\ pc' = "loop"
                 /\ thrown' = NoError
                 /\ ruleIndex' = ruleIndex + 1
                 /\ writes' = writes
                 /\ SubSeq(errors', 1, Len(errors)) = errors]_vars

\* A finished run in which the doc of the first rule failed validation and
\* the doc of the second rule, which passed, was written and validated.
C8_Witness ==
    /\ pc = "done"
    /\ exitCode = 1
    /\ Len(details) = 2
    /\ ErrorsOf(details[1].name) # <<>>
    /\ ErrorsOf(details[2].name) = <<>>
    /\ writes = <<DocPath(details[1].name), DocPath(details[2].name), ReadmePath>>
    /\ Len(validated) = 2

\* C9: the rules are processed in registry order; at a rule without a doc
\* file the run throws iff the rule is not deprecated, and nothing is written
\* after that; a deprecated rule without a doc file is passed over with no
\* write and no diagnostic, and the run goes on with the next rule.
C9_MissingDocBoundary ==
    /\ [](/\ pc \in {"loop", "thrown"} /\ plugin.hasRules =>
                 writes = DocsOfFirst(ruleIndex - 1)
          /\ pc = "validate" => writes = DocsOfFirst(ruleIndex)
          /\ pc = "done" => writes = Append(DocsOfFirst(Len(details)), ReadmePath)
          /\ \A j \in 1..Len(validated) :
                 \E k \in 1..Len(details) :
                     /\ validated[j].name = details[k].name
                     /\ HasDoc(k)
                     /\ Len(DocsOfFirst(k)) = j
          /\ thrown.kind = "missingDoc" =>
                 /\ thrown.rule = details[ruleIndex].name
                 /\ ~HasDoc(ruleIndex)
                 /\ ~details[ruleIndex].deprecated)
    /\ [][/\ (AtRule /\ ~HasDoc(ruleIndex)) =>
                 IF details[ruleIndex].deprecated
                 THEN /\ pc' = "loop"
                      /\ ruleIndex' = ruleIndex + 1
                      /\ UNCHANGED <<thrown, files, writes, errors, exitCode, validated>>
                 ELSE /\ pc' = "thrown"
                      /\ thrown'.kind = "missingDoc"
                      /\ UNCHANGED <<files, writes, errors, exitCode, validated>>
          /\ (AtRule /\ HasDoc(ruleIndex)) => thrown' = NoError
          /\ pc = "thrown" => UNCHANGED <<files, writes>>]_vars

\* The run has thrown at the second rule, which is not deprecated and has no
\* doc file, after it wrote the doc of the first rule.
C9_Witness ==
    /\ pc = "thrown"
    /\ thrown.kind = "missingDoc"
    /\ ruleIndex = 2
    /\ ~details[2].deprecated
    /\ writes = <<DocPath(details[1].name)>>
    /\ files[ReadmePath].exists

-----------------------------------------------------------------------------
(* Properties of the title line (SpecTitle). *)

\* Whether the title format in force puts the description in the title.
UsesDescription ==
    (IF titleFormat = NoFormat THEN RULE_DOC_TITLE_FORMAT_DEFAULT ELSE titleFormat)
        \in DescFormats

\* Sentence case as the specification words it: the first character
\* upper-cased, every remaining character lower-cased.
SentenceCased(s) ==
    IF s = <<>> THEN <<>>
    ELSE ToUpperCase(SubSeq(s, 1, 1)) \o ToLowerCase(SubSeq(s, 2, Len(s)))

\* One period at the end, if there is one, taken off.
PeriodStripped(s) ==
    IF Len(s) > 0 /\ s[Len(s)] = "." THEN SubSeq(s, 1, Len(s) - 1) ELSE s

\* What follows the description in the title line, per title format.
TitleSuffix ==
    CASE titleFormat = "desc" -> <<>>
      [] titleFormat = "desc-parens-name" -> <<" ", "(", BQ, "no-foo", BQ, ")">>
      [] OTHER -> <<" ", "(", BQ, PLUGIN_PREFIX, "/", "no-foo", BQ, ")">>

\* C11: whenever the title format in force uses the description and the rule
\* has a description, the title line is "# " followed by the description
\* with its first character upper-cased, every remaining character
\* lower-cased and a trailing period stripped (followed, under the formats
\* with parentheses, by the parenthesised name).
C11_SentenceCaseTitle ==
    (titleDone /\ UsesDescription /\ ruleDescription # <<>>) =>
        title = <<"#", " ">> \o PeriodStripped(SentenceCased(ruleDescription)) \o TitleSuffix

====
